---------------------------- MODULE Spec2Model ----------------------------
(***************************************************************************)
(* Model of asap_essay_scoring/cross_predict.py: the CrossPredict harness. *)
(*                                                                         *)
(* Rows are numbered from 0 as in the source.  A Dataset is a record       *)
(* [X, y, group] of functions over 0..R-1; X[i] is the feature row of      *)
(* essay i, kept abstract as the identity of the row it came from.         *)
(* Objects that Python passes by reference (the hyperparameters) live in   *)
(* `heap`, so that sharing and copying are different things.               *)
(***************************************************************************)
EXTENDS Integers, Sequences, FiniteSets

\* ---------------------------------------------------------------- bounds
MaxRows == 4
NGroups == 2
MaxFold == 3

\* The tolerance of the structural check, 1.02, as the fraction 102/100.
RatioTolNum == 102
RatioTolDen == 100

Groups == 1..NGroups

VARIABLES
    status,     \* "new": arguments given, __init__ not run; "ready"; "failed"
    data,       \* self.data
    Learner,    \* self.Learner: the behaviour of the learner class
    n_fold,     \* the n_fold argument
    params,     \* self.params: a reference into heap
    heap,       \* object id -> value of the hyperparameter object
    folds,      \* self.folds
    keys,       \* self.keys
    call,       \* the last operation called on the harness
    error,      \* the exception the last operation raised, NoError if none
    ret,        \* what the last operation returned (a frame: a sequence of rows)
    log         \* what the last operation did with learners, in order

vars == <<status, data, Learner, n_fold, params, heap, folds, keys,
          call, error, ret, log>>

\* ------------------------------------------------------------ exceptions
NoError == [type |-> "None", args |-> <<>>]

\* A bare `assert cond` raises AssertionError with an empty args tuple.
AssertionError == [type |-> "AssertionError", args |-> <<>>]

\* sklearn's message names n_splits only.
ValueError(k) == [type |-> "ValueError", args |-> <<"n_splits", k>>]

\* --------------------------------------------------------------- helpers
RECURSIVE Ascending(_)
Ascending(S) ==
    IF S = {} THEN <<>>
    ELSE LET m == CHOOSE x \in S : \A y \in S : x <= y
         IN  <<m>> \o Ascending(S \ {m})

Range(s) == {s[j] : j \in DOMAIN s}

RECURSIVE Concat(_)
Concat(ss) == IF ss = <<>> THEN <<>> ELSE Head(ss) \o Concat(Tail(ss))

\* The hyperparameter object as the caller built it, and as a learner that
\* tunes its own configuration leaves it.
Config == [alpha |-> 1]
Tuned(c) == [c EXCEPT !.alpha = @ + 1]

\* data: X and y as numeric columns, group as the essay-set label per row.
MakeData(g) ==
    [X |-> [i \in DOMAIN g |-> i],
     y |-> [i \in DOMAIN g |-> 10 + i],
     group |-> g]

\* Dataset.select(idx): the rows at idx, in that order, renumbered from 0.
Select(d, idx) ==
    [X |-> [j \in 0..(Len(idx) - 1) |-> d.X[idx[j + 1]]],
     y |-> [j \in 0..(Len(idx) - 1) |-> d.y[idx[j + 1]]],
     group |-> [j \in 0..(Len(idx) - 1) |-> d.group[idx[j + 1]]]]

\* --------------------------------------------------- StratifiedKFold.split
Classes(g) == {g[i] : i \in DOMAIN g}
ClassCount(g, e) == Cardinality({i \in DOMAIN g : g[i] = e})

\* n_splits < 2 is rejected; so is n_splits greater than the number of
\* members of EVERY class.  n_splits greater than the least populated class
\* alone is a warning, not an error.
SplitRaises(g, k) ==
    \/ k < 2
    \/ \A e \in Classes(g) : k > ClassCount(g, e)

\* test_folds: the fold in whose test set each row falls.  Each class is
\* dealt over the folds as evenly as it goes (floor or ceiling of its share);
\* which rows of the class go where is the shuffle, under the seeded RNG.
Stratified(g, k, tf) ==
    \A e \in Classes(g) : \A f \in 0..(k - 1) :
        LET n == ClassCount(g, e)
            c == Cardinality({i \in DOMAIN g : g[i] = e /\ tf[i] = f})
        IN  c \in {n \div k, (n + k - 1) \div k}

TestFolds(g, k) == {tf \in [DOMAIN g -> 0..(k - 1)] : Stratified(g, k, tf)}

\* self.folds: per fold the ascending index arrays train and test.
MakeFolds(g, k, tf) ==
    [f \in 0..(k - 1) |->
        [train |-> Ascending({i \in DOMAIN g : tf[i] # f}),
         test  |-> Ascending({i \in DOMAIN g : tf[i] = f})]]

\* self.keys
MakeKeys(d) ==
    [i \in DOMAIN d.y |-> [essay_set |-> d.group[i], ref |-> i]]

\* ks.iloc[rows].groupby('essay_set'): group label -> the rows of that
\* label, in the order of `rows`; only labels that occur are groups.
GroupBy(ks, rows) ==
    [e \in {ks[rows[j]].essay_set : j \in DOMAIN rows} |->
        SelectSeq(rows, LAMBDA i : ks[i].essay_set = e)]

\* grouped.get_group(e).ref
GetGroupRef(ks, grouped, e) ==
    [j \in DOMAIN grouped[e] |-> ks[grouped[e][j]].ref]

\* ------------------------------------------------- the structural check
\* _count_per_essay_set(k, rows): one row [fold, essay_set, count] per group
\* that occurs among `rows`, sorted by essay_set.
CountPerEssaySet(ks, k, rows) ==
    LET grouped == GroupBy(ks, rows)
        labels  == Ascending(DOMAIN grouped)
    IN  [j \in DOMAIN labels |->
            [fold |-> k, essay_set |-> labels[j], count |-> Len(grouped[labels[j]])]]

\* pd.concat of the per-fold counts of one side ("train" or "test").
TrainCounts(ks, fs) ==
    Concat([j \in 1..Cardinality(DOMAIN fs) |->
                CountPerEssaySet(ks, j - 1, fs[j - 1].train)])

TestCounts(ks, fs) ==
    Concat([j \in 1..Cardinality(DOMAIN fs) |->
                CountPerEssaySet(ks, j - 1, fs[j - 1].test)])

\* train_counts.merge(test_counts, on=['fold','essay_set'], how='inner'):
\* a row for each (fold, essay_set) that BOTH sides have, in left order.
Merge(tc, sc) ==
    LET match(r) == {j \in DOMAIN sc : sc[j].fold = r.fold
                                       /\ sc[j].essay_set = r.essay_set}
        kept == SelectSeq(tc, LAMBDA r : match(r) # {})
    IN  [j \in DOMAIN kept |->
            [fold |-> kept[j].fold, essay_set |-> kept[j].essay_set,
             train_count |-> kept[j].count,
             test_count |-> sc[CHOOSE m \in match(kept[j]) : TRUE].count]]

\* A ratio train_count/test_count is kept as the pair <<num, den>>, den > 0,
\* and compared exactly.
RatioLeq(a, b) == a[1] * b[2] <= b[1] * a[2]

Ratios(df) == [j \in DOMAIN df |-> <<df[j].train_count, df[j].test_count>>]

RatioMax(rs) == rs[CHOOSE j \in DOMAIN rs : \A m \in DOMAIN rs : RatioLeq(rs[m], rs[j])]
RatioMin(rs) == rs[CHOOSE j \in DOMAIN rs : \A m \in DOMAIN rs : RatioLeq(rs[j], rs[m])]

\* max_ratio/min_ratio < 1.02
WithinTolerance(maxr, minr) ==
    RatioTolDen * maxr[1] * minr[2] < RatioTolNum * minr[1] * maxr[2]

\* analyze_cross_predict_structure(): the joined table, and the exception
\* raised if any.  On an empty table max and min are NaN and the assert fails.
AnalyzeStructure(ks, fs) ==
    LET df == Merge(TrainCounts(ks, fs), TestCounts(ks, fs))
        rs == Ratios(df)
        ok == df # <<>> /\ WithinTolerance(RatioMax(rs), RatioMin(rs))
    IN  [df |-> df, error |-> IF ok THEN NoError ELSE AssertionError]


\* The copy left out: the learner is handed self.params itself.
ShareParams(h, p) == [heap |-> h, ref |-> p]

\* --------------------------------------------------------------- learners
\* copy.deepcopy(self.params): a new object with the same value.
DeepCopy(h, p) ==
    LET r == Cardinality(DOMAIN h)
    IN  [heap |-> [o \in DOMAIN h \cup {r} |-> IF o = r THEN h[p] ELSE h[o]],
         ref  |-> r]

\* learner.train(train_data): a learner of a tuning class rewrites the
\* hyperparameter object it was given.
LearnerTrain(h, L, ref) ==
    IF L = "tuning" THEN [h EXCEPT ![ref] = Tuned(@)] ELSE h

\* What a call has done so far: the heap, the number of learners made, the
\* log of learner events, the frames gathered, and the exception if raised.
Start(h, p) ==
    [heap |-> [o \in {0} |-> h[p]], n |-> 0, log |-> <<>>, out |-> <<>>,
     error |-> NoError]

Event(op, id, ref, rows) == [op |-> op, learner |-> id, params |-> ref, rows |-> rows]


\* One learner kept and trained again for every later pair.
ReuseLearner(st, d, ks, p, L, train_idx, test_idx) ==
    LET train_data == Select(d, train_idx)
        test_data  == Select(d, test_idx)
        id == IF st.n = 0 THEN 1 ELSE st.n
        cp == IF st.n = 0 THEN DeepCopy(st.heap, p)
              ELSE [heap |-> st.heap, ref |-> Cardinality(DOMAIN st.heap) - 1]
        frame == [j \in DOMAIN test_idx |->
                    [pred |-> id,
                     truth |-> test_data.y[j - 1],
                     idx |-> test_idx[j],
                     essay_set |-> ks[test_idx[j]].essay_set]]
    IN  [heap  |-> LearnerTrain(cp.heap, L, cp.ref),
         n     |-> id,
         log   |-> st.log \o
                   (IF st.n = 0 THEN << Event("init", id, cp.ref, {}) >> ELSE << >>) \o
                   << Event("train", id, cp.ref, Range(train_data.X)),
                      Event("predict", id, cp.ref, Range(test_data.X)) >>,
         out   |-> st.out \o frame,
         error |-> st.error]

\* _train_and_predict(train_idx, test_idx)
TrainAndPredict(st, d, ks, p, L, train_idx, test_idx) ==
    LET train_data == Select(d, train_idx)
        test_data  == Select(d, test_idx)
        id == st.n + 1
        cp == DeepCopy(st.heap, p)
        frame == [j \in DOMAIN test_idx |->
                    [pred |-> id,
                     truth |-> test_data.y[j - 1],
                     idx |-> test_idx[j],
                     essay_set |-> ks[test_idx[j]].essay_set]]
    IN  [heap  |-> LearnerTrain(cp.heap, L, cp.ref),
         n     |-> id,
         log   |-> st.log \o
                   << Event("init", id, cp.ref, {}),
                      Event("train", id, cp.ref, Range(train_data.X)),
                      Event("predict", id, cp.ref, Range(test_data.X)) >>,
         out   |-> st.out \o frame,
         error |-> st.error]

\* [self._train_and_predict(trn_es.get_group(e).ref, tst_es.get_group(e).ref)
\*  for e in essays], concatenated
RECURSIVE EachEssay(_, _, _, _, _, _, _, _)
EachEssay(st, d, ks, p, L, trn_es, tst_es, essays) ==
    IF essays = <<>> THEN st
    ELSE LET e == Head(essays)
         IN  EachEssay(TrainAndPredict(st, d, ks, p, L,
                                       GetGroupRef(ks, trn_es, e),
                                       GetGroupRef(ks, tst_es, e)),
                       d, ks, p, L, trn_es, tst_es, Tail(essays))


\* The training rows taken from the whole registry instead of the fold's
\* train indices.
OneFoldTrainOnAll(st, d, ks, fs, p, L, k) ==
    LET trn == Ascending(DOMAIN ks)
        tst == fs[k].test
        trn_es == GroupBy(ks, trn)
        tst_es == GroupBy(ks, tst)
        essays == DOMAIN tst_es
    IN  IF essays # DOMAIN trn_es
        THEN [st EXCEPT !.error = AssertionError]
        ELSE EachEssay(st, d, ks, p, L, trn_es, tst_es, Ascending(essays))

\* _train_and_predict_one_fold(k)
TrainAndPredictOneFold(st, d, ks, fs, p, L, k) ==
    LET trn == fs[k].train
        tst == fs[k].test
        trn_es == GroupBy(ks, trn)
        tst_es == GroupBy(ks, tst)
        essays == DOMAIN tst_es
    IN  IF essays # DOMAIN trn_es
        THEN [st EXCEPT !.error = AssertionError]
        ELSE EachEssay(st, d, ks, p, L, trn_es, tst_es, Ascending(essays))


\* A fold that raises is skipped and the others are gathered.
RECURSIVE EachFoldSkipping(_, _, _, _, _, _, _)
EachFoldSkipping(st, d, ks, fs, p, L, k) ==
    IF k = Cardinality(DOMAIN fs) THEN st
    ELSE LET s1 == TrainAndPredictOneFold(st, d, ks, fs, p, L, k)
         IN  IF s1.error # NoError
             THEN EachFoldSkipping(st, d, ks, fs, p, L, k + 1)
             ELSE EachFoldSkipping(s1, d, ks, fs, p, L, k + 1)

\* [self._train_and_predict_one_fold(k) for k in kr]: an exception in one
\* fold ends the comprehension.
RECURSIVE EachFold(_, _, _, _, _, _, _)
EachFold(st, d, ks, fs, p, L, k) ==
    IF k = Cardinality(DOMAIN fs) THEN st
    ELSE LET s1 == TrainAndPredictOneFold(st, d, ks, fs, p, L, k)
         IN  IF s1.error # NoError THEN s1
             ELSE EachFold(s1, d, ks, fs, p, L, k + 1)


\* The frames returned as concatenated.
Unsorted(frame) == frame

\* preds.sort_values('idx')
RECURSIVE SortValuesIdx(_)
SortValuesIdx(frame) ==
    IF frame = <<>> THEN <<>>
    ELSE LET j == CHOOSE a \in DOMAIN frame :
                    \A b \in DOMAIN frame :
                        frame[a].idx < frame[b].idx
                        \/ (frame[a].idx = frame[b].idx /\ a <= b)
         IN  <<frame[j]>> \o
             SortValuesIdx([m \in 1..(Len(frame) - 1) |->
                               IF m < j THEN frame[m] ELSE frame[m + 1]])


\* One learner for all rows, the groups pooled.
CheatRunPooled(st, d, ks, p, L) ==
    LET all == Ascending(DOMAIN ks)
    IN  TrainAndPredict(st, d, ks, p, L, all, all)

\* cheat(): both groupings are of all of self.keys.
CheatRun(st, d, ks, p, L) ==
    LET all == Ascending(DOMAIN ks)
        trn_es == GroupBy(ks, all)
        tst_es == GroupBy(ks, all)
        essays == DOMAIN tst_es
    IN  EachEssay(st, d, ks, p, L, trn_es, tst_es, Ascending(essays))

Init ==
    \E R \in 1..MaxRows : \E g \in [0..(R - 1) -> Groups] :
    \E k \in 1..MaxFold : \E L \in {"pure", "tuning"} :
        /\ status = "new"
        /\ data = MakeData(g)
        /\ Learner = L
        /\ n_fold = k
        /\ params = 0
        /\ heap = [o \in {0} |-> Config]
        /\ folds = <<>>
        /\ keys = <<>>
        /\ call = "none"
        /\ error = NoError
        /\ ret = <<>>
        /\ log = <<>>

\* ---------------------------------------------------------------- actions
\* CrossPredict.__init__
Construct ==
    /\ status = "new"
    /\ call' = "__init__"
    /\ IF SplitRaises(data.group, n_fold)
       THEN /\ status' = "failed"
            /\ error' = ValueError(n_fold)
            /\ UNCHANGED <<folds, keys>>
       ELSE \E tf \in TestFolds(data.group, n_fold) :
            LET fs == MakeFolds(data.group, n_fold, tf)
                ks == MakeKeys(data)
                a  == AnalyzeStructure(ks, fs)
            IN  /\ folds' = fs
                /\ keys' = ks
                /\ error' = a.error
                /\ status' = IF a.error = NoError THEN "ready" ELSE "failed"
    /\ UNCHANGED <<data, Learner, n_fold, params, heap, ret, log>>

\* cross_predict()
CrossPredict ==
    /\ status = "ready"
    /\ LET st == EachFold(Start(heap, params), data, keys, folds, params, Learner, 0)
       IN  /\ call' = "cross_predict"
           /\ heap' = st.heap
           /\ log' = st.log
           /\ error' = st.error
           /\ ret' = IF st.error = NoError THEN SortValuesIdx(st.out) ELSE <<>>
    /\ UNCHANGED <<status, data, Learner, n_fold, params, folds, keys>>

\* cheat()
Cheat ==
    /\ status = "ready"
    /\ LET st == CheatRun(Start(heap, params), data, keys, params, Learner)
       IN  /\ call' = "cheat"
           /\ heap' = st.heap
           /\ log' = st.log
           /\ error' = st.error
           /\ ret' = st.out
    /\ UNCHANGED <<status, data, Learner, n_fold, params, folds, keys>>

\* analyze_cross_predict_structure(), called again on a built harness
Analyze ==
    /\ status = "ready"
    /\ LET a == AnalyzeStructure(keys, folds)
       IN  /\ call' = "analyze_cross_predict_structure"
           /\ error' = a.error
           /\ ret' = IF a.error = NoError THEN a.df ELSE <<>>
    /\ heap' = [o \in {0} |-> heap[params]]
    /\ log' = <<>>
    /\ UNCHANGED <<status, data, Learner, n_fold, params, folds, keys>>

Next ==
    \/ Construct
    \/ CrossPredict
    \/ Cheat
    \/ Analyze

Spec == Init /\ [][Next]_vars
\* ----------------------------------------------------------- properties
\* Vocabulary of the properties below, read off the state.
AllRows == DOMAIN data.group
NumRows == Cardinality(AllRows)
FoldIds == DOMAIN folds
TrainRows(k, e) == {i \in Range(folds[k].train) : data.group[i] = e}
TestRows(k, e) == {i \in Range(folds[k].test) : data.group[i] = e}
GroupRows(e) == {i \in AllRows : data.group[i] = e}
TrainGroups(k) == {data.group[i] : i \in Range(folds[k].train)}
TestGroups(k) == {data.group[i] : i \in Range(folds[k].test)}
Mismatch(k) == TrainGroups(k) # TestGroups(k)
LearnerIds == {log[j].learner : j \in DOMAIN log}
EventsOf(id) == SelectSeq(log, LAMBDA ev : ev.learner = id)
OpsOf(id) == [j \in DOMAIN EventsOf(id) |-> EventsOf(id)[j].op]
RowsOf(id, op) == {log[j].rows : j \in {m \in DOMAIN log : log[m].learner = id /\ log[m].op = op}}
Returned(op) == call = op /\ error = NoError
MinGroupCount ==
    LET cs == {ClassCount(data.group, e) : e \in Classes(data.group)}
    IN  CHOOSE c \in cs : \A c2 \in cs : c <= c2

\* C1: a cross_predict() call that returns yields exactly R records whose idx
\* values are each row index 0..R-1 exactly once, in ascending order of idx.
C1_OutputIsSortedPermutation ==
    Returned("cross_predict") =>
        /\ Len(ret) = NumRows
        /\ {ret[j].idx : j \in DOMAIN ret} = 0..(NumRows - 1)
        /\ \A a, b \in DOMAIN ret : a < b => ret[a].idx < ret[b].idx

\* C1 witness: a returned cross_predict whose first learner predicted rows
\* other than row 0, so the concatenation was not already in row order.
C1_Witness ==
    /\ Returned("cross_predict")
    /\ NumRows >= 3
    /\ Len(log) >= 3
    /\ 0 \notin log[3].rows

\* C2: every record cross_predict() returns for row i comes from a learner
\* trained on a set without i, namely the rows of the train set of the one
\* fold whose test set holds i that carry i's group label.
C2_OutOfFold ==
    Returned("cross_predict") =>
        \A j \in DOMAIN ret :
            LET i == ret[j].idx
                trained == RowsOf(ret[j].pred, "train")
            IN  /\ \A t \in trained : i \notin t
                /\ \E k \in FoldIds :
                      /\ i \in Range(folds[k].test)
                      /\ \A k2 \in FoldIds \ {k} : i \notin Range(folds[k2].test)
                      /\ trained = {TrainRows(k, data.group[i])}

\* C2 witness: a returned cross_predict over three folds in which a record's
\* learner was trained on the two rows outside the record's fold.
C2_Witness ==
    /\ Returned("cross_predict")
    /\ n_fold = 3
    /\ \E j \in DOMAIN ret :
          RowsOf(ret[j].pred, "train") = {AllRows \ Range(folds[2].test)}

\* C3 (as claimed): construction succeeds only if no (fold, group) pair's
\* train:test ratio differs from another pair's by a factor of 1.02 or more,
\* over every fold and every group of the dataset.
C3_AllPairsWithinTolerance ==
    status = "ready" =>
        \A k1, k2 \in FoldIds : \A e1, e2 \in Classes(data.group) :
            RatioTolDen * Cardinality(TrainRows(k1, e1)) * Cardinality(TestRows(k2, e2))
              < RatioTolNum * Cardinality(TrainRows(k2, e2)) * Cardinality(TestRows(k1, e1))

\* C4: when some fold's train groups differ from its test groups,
\* cross_predict() raises the group-mismatch error, returns no record, and
\* makes no learner for a mismatching fold.
C4_MismatchAborts ==
    (call = "cross_predict" /\ \E k \in FoldIds : Mismatch(k)) =>
        /\ error = AssertionError
        /\ ret = <<>>
        /\ \A k \in FoldIds : Mismatch(k) =>
              \A id \in LearnerIds :
                  /\ OpsOf(id) = <<"init", "train", "predict">>
                  /\ \A t \in RowsOf(id, "predict") : t \cap Range(folds[k].test) = {}

\* C4 witness: the call raised on a fold that has a group on both sides
\* (for which a learner could have been made) and a group on one side only.
C4_Witness ==
    /\ call = "cross_predict"
    /\ error = AssertionError
    /\ \E k \in FoldIds : Mismatch(k) /\ TrainGroups(k) \cap TestGroups(k) # {}

\* C5: cheat() makes exactly one learner per group, trained on all rows of
\* the group and predicting those same rows, and returns one record per row,
\* each from a learner that saw the row in training.
C5_CheatInSample ==
    call = "cheat" =>
        /\ error = NoError
        /\ Cardinality(LearnerIds) = Cardinality(Classes(data.group))
        /\ \A e \in Classes(data.group) :
              Cardinality({id \in LearnerIds :
                              /\ OpsOf(id) = <<"init", "train", "predict">>
                              /\ RowsOf(id, "train") = {GroupRows(e)}
                              /\ RowsOf(id, "predict") = {GroupRows(e)}}) = 1
        /\ Len(ret) = NumRows
        /\ \A i \in AllRows : Cardinality({j \in DOMAIN ret : ret[j].idx = i}) = 1
        /\ \A j \in DOMAIN ret : \A t \in RowsOf(ret[j].pred, "train") : ret[j].idx \in t

\* C5 witness: cheat() on a dataset of two groups, on which the folds would
\* have made cross_predict() raise.
C5_Witness ==
    /\ call = "cheat"
    /\ Cardinality(Classes(data.group)) = 2
    /\ \E k \in FoldIds : Mismatch(k)

\* C6 (as claimed): construction fails whenever n_fold exceeds the number of
\* rows of the smallest group.
C6_FewRowsFailConstruction ==
    (status # "new" /\ n_fold > MinGroupCount) => status = "failed"

\* C7 (as claimed): an assertion the harness raises names the fold index and
\* the group label it is about.
C7_ErrorCarriesContext ==
    error.type = "AssertionError" =>
        \E k \in FoldIds : \E e \in Classes(data.group) :
            k \in Range(error.args) /\ e \in Range(error.args)

\* C8 (as claimed): on a built harness every group has a train row and a test
\* row in every fold, and cross_predict() never raises the group mismatch.
C8_ReadyImpliesNoMismatch ==
    status = "ready" =>
        /\ \A k \in FoldIds : \A e \in Classes(data.group) :
              TrainRows(k, e) # {} /\ TestRows(k, e) # {}
        /\ call = "cross_predict" => error = NoError

\* C9: on a built harness no call changes the stored hyperparameters, the
\* dataset, the index registry or the folds, and every learner is made with
\* a hyperparameter object of its own: not the stored one, not another's.
C9_OwnCopy ==
    \A a, b \in DOMAIN log :
        log[a].op = "init" =>
            /\ log[a].params # params
            /\ (log[b].op = "init" /\ a # b) => log[a].params # log[b].params
C9_StoredStateIsFrame ==
    /\ [](status = "ready" => C9_OwnCopy /\ heap[params] = Config)
    /\ [][status = "ready" =>
            /\ data' = data /\ keys' = keys /\ folds' = folds
            /\ params' = params /\ heap'[params'] = heap[params]]_vars

\* C9 witness: learners of a tuning class have run and rewritten their own
\* hyperparameter objects.
C9_Witness ==
    /\ Returned("cross_predict")
    /\ Learner = "tuning"
    /\ Cardinality(LearnerIds) >= 4
    /\ \A o \in DOMAIN heap \ {params} : heap[o] # Config

\* C10: a cross_predict() that completes makes one fresh learner per
\* (fold, group) pair, n_fold times the number of groups in all, the number
\* of rows of the validator's joined table; each is trained once on its
\* pair's train rows, then predicts once on its pair's test rows.
C10_OneLearnerPerPair ==
    Returned("cross_predict") =>
        /\ Cardinality(LearnerIds) = n_fold * Cardinality(Classes(data.group))
        /\ Cardinality(LearnerIds) = Len(AnalyzeStructure(keys, folds).df)
        /\ \A id \in LearnerIds : OpsOf(id) = <<"init", "train", "predict">>
        /\ \A k \in FoldIds : \A e \in Classes(data.group) :
              Cardinality({id \in LearnerIds :
                              /\ RowsOf(id, "train") = {TrainRows(k, e)}
                              /\ RowsOf(id, "predict") = {TestRows(k, e)}}) = 1

\* C10 witness: a completed cross_predict() with two groups in two folds.
C10_Witness ==
    /\ Returned("cross_predict")
    /\ Cardinality(Classes(data.group)) = 2
    /\ Cardinality(LearnerIds) = 4

=============================================================================
